---- MODULE Spec2Model ----
(***************************************************************************)
(* RibManager of NFD 0.6.3 (rib/rib-manager.cpp) as a state machine.       *)
(*                                                                         *)
(* The manager's own state is m_registeredFaces, m_activeFaceFetchEvent    *)
(* and m_isLocalhopEnabled.  Its collaborators are modelled by the state   *)
(* they keep for it: the scheduler's event queue (events), the RIB table   *)
(* (m_rib, its update queue m_updateBatches and the update handed to the   *)
(* FIB updater, fibPending), the controller's outstanding commands         *)
(* (topPending, nFetch).                                                   *)
(*                                                                         *)
(* The clock (now), the time of an event and the expiration of a route     *)
(* count ticks of time::steady_clock.  The periods of requests and of the  *)
(* listing and the intervals of the audit are counted in one coarser unit  *)
(* of TicksPerUnit ticks; Ticks and DurationCast convert between the two.  *)
(*                                                                         *)
(* The configuration is the default one: enableLocalhop is not called, so  *)
(* m_isLocalhopEnabled keeps the value the constructor gives it.           *)
(*                                                                         *)
(* optional<T> is a sequence of length 0 or 1.                             *)
(* Route.cost and Route.flags are carried through the code unchanged and   *)
(* decide nothing; they are left out.                                      *)
(***************************************************************************)
EXTENDS Integers, Sequences, FiniteSets, TLC

-----------------------------------------------------------------------------
(* Program constants *)

ACTIVE_FACE_FETCH_INTERVAL == 300
EAGER_FETCH_DELAY == 1
\* defined in core/fib-max-depth.hpp, used by registerEntry
FIB_MAX_DEPTH == 32
\* stand-in for time::milliseconds::max(), larger than every period used
MILLISECONDS_MAX == 1000000

LOCALHOST_TOP_PREFIX == <<"localhost", "nfd">>
LOCALHOP_TOP_PREFIX == <<"localhop", "nfd">>

-----------------------------------------------------------------------------
(* Bounds of the model *)

\* number of requests, notifications and direct calls explored
MaxOps == 2
\* no deadline beyond this time is waited for
MaxTime == 1
\* ticks of the clock in one unit of the periods and intervals
TicksPerUnit == 2
\* bound of the clock, in ticks, where it advances tick by tick
MaxListTime == 5

\* duration_cast to time::nanoseconds, from a coarser unit: exact
Ticks(d) == d * TicksPerUnit

\* duration_cast<time::milliseconds> of a duration of the clock: the
\* quotient, rounded toward zero
DurationCast(d) ==
  IF d >= 0 THEN d \div TicksPerUnit ELSE -((-d) \div TicksPerUnit)

-----------------------------------------------------------------------------
(* Inputs *)

FaceIds == {1, 2}
Origins == {0}
ShortName == <<"a", "b">>
LongName == [i \in 1..(FIB_MAX_DEPTH + 1) |-> "x"]
ReqNames == {ShortName, LongName}
\* the names of the model, in the RIB table's order
NameOrder == <<ShortName, LOCALHOP_TOP_PREFIX, LOCALHOST_TOP_PREFIX, LongName>>
RibNames == {NameOrder[i] : i \in 1..Len(NameOrder)}
\* optional expiration periods of a request
Periods == {<<>>, <<-1>>, <<0>>, <<1>>, <<MILLISECONDS_MAX>>}
\* absolute expirations of the routes passed to beginAddRoute directly
RouteExpirations == {<<Ticks(1)>>}
\* the face ids of the requests: the sentinel 0 and a face other than the
\* one they arrive on
ReqFaceIds == {0, 1}
\* the face the management requests arrive on (their IncomingFaceIdTag)
IncomingFaces == {2}
\* the face the forwarder names in its answer to FibAddNextHopCommand
TopPrefixFaces == {1}

NoName == <<>>

VARIABLES
  now,                     \* time::steady_clock::now()
  events,                  \* the scheduler's pending events
  m_rib,                   \* RIB table: name -> list of routes
  m_updateBatches,         \* RIB table: queued updates
  fibPending,              \* RIB table: the update at the FIB updater (m_isUpdateInProgress)
  m_registeredFaces,
  m_activeFaceFetchEvent,  \* optional event id
  m_isLocalhopEnabled,
  started,                 \* registerWithNfd has run
  topPending,              \* top prefixes whose FibAddNextHopCommand is outstanding
  fatal,                   \* an exception left a callback
  nFetch,                  \* outstanding FaceDataset fetches
  eagerDue,                \* history: optional time by which the audit of the last failure is due
  auditOwed,               \* history: faces an audit found invalid, handler not yet run
  last                     \* history: the last handler that ran, its inputs and outputs

vars == <<now, events, m_rib, m_updateBatches, fibPending,
          m_registeredFaces, m_activeFaceFetchEvent, m_isLocalhopEnabled,
          started, topPending, fatal, nFetch, eagerDue, auditOwed, last>>

-----------------------------------------------------------------------------
(* Event ids.  An id is what scheduler::schedule returns; the model gives a  *)
(* new event an id above every id the scheduler or a handle still holds.   *)

Max(S) == CHOOSE x \in S : \A y \in S : y <= x

SeqIds(routes) == UNION {{routes[i].ev[k] : k \in 1..Len(routes[i].ev)} : i \in 1..Len(routes)}

HeldIds ==
  {e.id : e \in events}
  \cup {m_activeFaceFetchEvent[k] : k \in 1..Len(m_activeFaceFetchEvent)}
  \cup UNION {SeqIds(m_rib[n]) : n \in DOMAIN m_rib}
  \cup SeqIds([i \in 1..Len(m_updateBatches) |-> m_updateBatches[i].route])
  \cup SeqIds([i \in 1..Len(fibPending) |-> fibPending[i].route])

nextEventId == Max(HeldIds \cup {0}) + 1

-----------------------------------------------------------------------------
(* Scheduler: schedule(delay, callback) -> id, cancel(id).  Events fire in  *)
(* the order of their expiry time, and in the order scheduled among equal. *)

Event(id, at, kind, name, faceId, origin, expires) ==
  [id |-> id, at |-> at, kind |-> kind, name |-> name, faceId |-> faceId,
   origin |-> origin, expires |-> expires]

Schedule(evs, e) == evs \cup {e}

Cancel(evs, id) == {e \in evs : e.id # id}

\* scheduler::cancel of an optional id; a null id cancels nothing
CancelOpt(evs, oid) == IF oid = <<>> THEN evs ELSE Cancel(evs, oid[1])

Earlier(e, f) == e.at < f.at \/ (e.at = f.at /\ e.id < f.id)

NextEvent(evs) == CHOOSE e \in evs : \A f \in evs \ {e} : Earlier(e, f)

Due(evs, t) == {e \in evs : e.at <= t}

-----------------------------------------------------------------------------
(* Routes and the RIB table *)

Route(faceId, origin, expires, ev) ==
  [faceId |-> faceId, origin |-> origin, expires |-> expires, ev |-> ev]

\* Route equality used by findRoute: faceId and origin
SameRoute(r, s) == r.faceId = s.faceId /\ r.origin = s.origin

\* index of the route of `routes` matching r, 0 if none
FindRoute(routes, r) ==
  IF \E i \in 1..Len(routes) : SameRoute(routes[i], r)
  THEN CHOOSE i \in 1..Len(routes) : SameRoute(routes[i], r)
  ELSE 0

RemoveAt(s, i) == [k \in 1..(Len(s) - 1) |-> IF k < i THEN s[k] ELSE s[k + 1]]

\* Rib::insert: a new route is appended; an existing one has its scheduled
\* expiration cancelled and is overwritten
RibInsert(rib, evs, name, route) ==
  LET routes == rib[name]
      i == FindRoute(routes, route)
  IN IF i = 0
     THEN [rib |-> [rib EXCEPT ![name] = Append(routes, route)], events |-> evs]
     ELSE [rib |-> [rib EXCEPT ![name][i] = route],
           events |-> CancelOpt(evs, routes[i].ev)]

\* Rib::erase: the route is removed and its scheduled expiration cancelled;
\* an entry without routes is dropped (an empty list here)
RibErase(rib, evs, name, route) ==
  LET routes == IF name \in DOMAIN rib THEN rib[name] ELSE <<>>
      i == FindRoute(routes, route)
  IN IF i = 0
     THEN [rib |-> rib, events |-> evs]
     ELSE [rib |-> [rib EXCEPT ![name] = RemoveAt(routes, i)],
           events |-> CancelOpt(evs, routes[i].ev)]

RibUpdate(action, name, route, cb) ==
  [action |-> action, name |-> name, route |-> route, cb |-> cb]

\* Rib::sendBatchFromQueue: hand the next queued update to the FIB updater
\* unless one is in progress
SendBatchFromQueue(q, pending) ==
  IF q = <<>> \/ pending # <<>>
  THEN [queue |-> q, pending |-> pending]
  ELSE [queue |-> Tail(q), pending |-> <<Head(q)>>]

\* Rib::beginApplyUpdate: queue the update and try to send
BeginApplyUpdate(q, pending, update) ==
  SendBatchFromQueue(Append(q, update), pending)

\* the REMOVE_FACE updates of Rib::beginRemoveFace, one per route of the face
RECURSIVE RemoveFaceUpdates(_, _, _)
RemoveFaceUpdates(rib, faceId, i) ==
  IF i > Len(NameOrder) THEN <<>>
  ELSE LET n == NameOrder[i]
           rs == SelectSeq(rib[n], LAMBDA r : r.faceId = faceId)
       IN [k \in 1..Len(rs) |-> RibUpdate("REMOVE_FACE", n, rs[k], FALSE)]
          \o RemoveFaceUpdates(rib, faceId, i + 1)

\* Rib::beginRemoveFace
BeginRemoveFace(q, pending, rib, faceId) ==
  SendBatchFromQueue(q \o RemoveFaceUpdates(rib, faceId, 1), pending)

-----------------------------------------------------------------------------
(* History record of the last handler *)

NoLast ==
  [seq |-> 0, op |-> "none", name |-> NoName, faceId |-> 0, origin |-> 0,
   period |-> <<>>, inFace |-> 0, code |-> 0, respFace |-> 0,
   result |-> "none", submitted |-> FALSE, kind |-> "none",
   \* hit: an applied update changed the table; a face-destroyed handler ran
   \* for a face an audit had found invalid
   hit |-> FALSE,
   active |-> {}, listing |-> <<>>,
   \* time: the clock as listEntries read it
   time |-> 0,
   \* effects: what the handler did that its caller or the RIB table sees,
   \* in the order of the code
   effects |-> <<>>]

\* the record of a handler that is not a request: the request count is kept;
\* what the handler works on is in the state before it
Ran(op) == [NoLast EXCEPT !.seq = last.seq, !.op = op]

\* the record of a request, notification or direct call: it is counted
Req(op) == [NoLast EXCEPT !.seq = last.seq + 1, !.op = op]

Init ==
  /\ now = 0
  /\ events = {}
  /\ m_rib = [n \in RibNames |-> <<>>]
  /\ m_updateBatches = <<>>
  /\ fibPending = <<>>
  /\ m_registeredFaces = {}
  /\ m_activeFaceFetchEvent = <<>>
  /\ m_isLocalhopEnabled = FALSE
  /\ started = FALSE
  /\ topPending = {}
  /\ fatal = FALSE
  /\ nFetch = 0
  /\ eagerDue = <<>>
  /\ auditOwed = {}
  /\ last = NoLast

-----------------------------------------------------------------------------
(* RibManager *)

\* ScopedEventId::operator=: the event held before is cancelled
ScopedAssign(evs, handle) == CancelOpt(evs, handle)

\* variants of scheduleActiveFaceFetch: one that waits the eager delay
\* whatever it is asked, one that leaves the event held before in place
scheduleActiveFaceFetch_Eager(evs, handle, id, t, timeToWait) ==
  Schedule(ScopedAssign(evs, handle),
           Event(id, t + Ticks(EAGER_FETCH_DELAY), "fetch", NoName, 0, 0, <<>>))

scheduleActiveFaceFetch_NoCancel(evs, handle, id, t, timeToWait) ==
  Schedule(evs, Event(id, t + Ticks(timeToWait), "fetch", NoName, 0, 0, <<>>))

\* RibManager::scheduleActiveFaceFetch: the events after scheduling the fetch
\* as event `id` at time t + timeToWait and storing it in m_activeFaceFetchEvent
scheduleActiveFaceFetch(evs, handle, id, t, timeToWait) ==
  Schedule(ScopedAssign(evs, handle),
           Event(id, t + Ticks(timeToWait), "fetch", NoName, 0, 0, <<>>))

\* a variant of setFaceForSelfRegistration that leaves face id 0 in place
setFaceForSelfRegistration_Unresolved(faceId, incomingFaceIdTag) == faceId

\* RibManager::setFaceForSelfRegistration: the face id of the parameters
setFaceForSelfRegistration(faceId, incomingFaceIdTag) ==
  IF faceId = 0 THEN incomingFaceIdTag ELSE faceId

\* a variant of the depth check that lets one component more through
ExceedsMaxDepth_OffByOne(name) == Len(name) > FIB_MAX_DEPTH + 1

\* RibManager::registerEntry, the depth check
ExceedsMaxDepth(name) == Len(name) > FIB_MAX_DEPTH

\* RibManager::registerEntry, the optional expires passed to beginAddRoute
ExpiresOfPeriod(period) ==
  IF period # <<>> /\ period[1] # MILLISECONDS_MAX
  THEN <<Ticks(period[1])>> ELSE <<>>

\* a variant of the expiration part that takes a period or a remaining
\* lifetime of zero for one in the future
AddRouteExpiry_ZeroLives(t, route, expires) ==
  IF expires # <<>>
  THEN IF expires[1] < 0
       THEN [expired |-> TRUE, route |-> route, expires |-> expires]
       ELSE [expired |-> FALSE,
             route |-> [route EXCEPT !.expires = <<t + expires[1]>>],
             expires |-> expires]
  ELSE IF route.expires # <<>>
       THEN [expired |-> route.expires[1] - t < 0, route |-> route,
             expires |-> <<route.expires[1] - t>>]
       ELSE [expired |-> FALSE, route |-> route, expires |-> <<>>]

\* RibManager::beginAddRoute, expiration part: whether the call ends EXPIRED,
\* and otherwise the route with its absolute expiration and the time to it
AddRouteExpiry(t, route, expires) ==
  IF expires # <<>>
  THEN IF expires[1] <= 0
       THEN [expired |-> TRUE, route |-> route, expires |-> expires]
       ELSE [expired |-> FALSE,
             route |-> [route EXCEPT !.expires = <<t + expires[1]>>],
             expires |-> expires]
  ELSE IF route.expires # <<>>
       THEN [expired |-> route.expires[1] - t <= 0, route |-> route,
             expires |-> <<route.expires[1] - t>>]
       ELSE [expired |-> FALSE, route |-> route, expires |-> <<>>]

\* a variant of beginAddRoute that does not register the face
beginAddRoute_NoFace(name, route, expires, l) ==
  LET o == AddRouteExpiry(now, route, expires)
      timed == o.expires # <<>>
      ev == Event(nextEventId, now + o.expires[1], "expire", name,
                  o.route.faceId, o.route.origin, o.route.expires)
      r == IF timed THEN [o.route EXCEPT !.ev = <<nextEventId>>] ELSE o.route
      sent == BeginApplyUpdate(m_updateBatches, fibPending,
                               RibUpdate("REGISTER", name, r, TRUE))
  IN IF o.expired
     THEN /\ last' = [l EXCEPT !.result = "EXPIRED",
                                !.effects = Append(@, "done")]
          /\ UNCHANGED <<events, m_registeredFaces,
                         m_updateBatches, fibPending>>
     ELSE /\ events' = IF timed THEN Schedule(events, ev) ELSE events
          /\ m_registeredFaces' = m_registeredFaces
          /\ m_updateBatches' = sent.queue
          /\ fibPending' = sent.pending
          /\ last' = [l EXCEPT !.submitted = TRUE,
                                !.effects = Append(@, "submit")]

\* RibManager::beginAddRoute, with l the history record of the caller
beginAddRoute(name, route, expires, l) ==
  LET o == AddRouteExpiry(now, route, expires)
      timed == o.expires # <<>>
      ev == Event(nextEventId, now + o.expires[1], "expire", name,
                  o.route.faceId, o.route.origin, o.route.expires)
      r == IF timed THEN [o.route EXCEPT !.ev = <<nextEventId>>] ELSE o.route
      sent == BeginApplyUpdate(m_updateBatches, fibPending,
                               RibUpdate("REGISTER", name, r, TRUE))
  IN IF o.expired
     THEN /\ last' = [l EXCEPT !.result = "EXPIRED",
                                !.effects = Append(@, "done")]
          /\ UNCHANGED <<events, m_registeredFaces,
                         m_updateBatches, fibPending>>
     ELSE /\ events' = IF timed THEN Schedule(events, ev) ELSE events
          /\ m_registeredFaces' = m_registeredFaces \cup {r.faceId}
          /\ m_updateBatches' = sent.queue
          /\ fibPending' = sent.pending
          /\ last' = [l EXCEPT !.submitted = TRUE,
                                !.effects = @ \o <<"insert", "submit">>]

\* a variant of beginRemoveRoute that submits the route as a registration
beginRemoveRoute_Register(name, route, l) ==
  LET sent == BeginApplyUpdate(m_updateBatches, fibPending,
                               RibUpdate("REGISTER", name, route, TRUE))
  IN /\ m_updateBatches' = sent.queue
     /\ fibPending' = sent.pending
     /\ last' = [l EXCEPT !.submitted = TRUE, !.effects = Append(@, "submit")]

\* RibManager::beginRemoveRoute
beginRemoveRoute(name, route, l) ==
  LET sent == BeginApplyUpdate(m_updateBatches, fibPending,
                               RibUpdate("UNREGISTER", name, route, TRUE))
  IN /\ m_updateBatches' = sent.queue
     /\ fibPending' = sent.pending
     /\ last' = [l EXCEPT !.submitted = TRUE, !.effects = Append(@, "submit")]

\* a variant of the response that answers nothing
Respond_Nothing(l, code, faceId) == l

\* done(ControlResponse(code, ...)) of registerEntry and unregisterEntry: the
\* response, for 200 with the parameters as setFaceForSelfRegistration left
\* them
Respond(l, code, faceId) ==
  [l EXCEPT !.code = code, !.respFace = faceId,
            !.effects = Append(@, "respond")]

\* RibManager::registerEntry
registerEntry(name, faceId, origin, period, inFace) ==
  /\ started /\ ~fatal /\ topPending = {} /\ last.seq < MaxOps
  /\ LET l == [Req("registerEntry") EXCEPT !.name = name, !.faceId = faceId,
                 !.origin = origin, !.period = period, !.inFace = inFace]
         f == setFaceForSelfRegistration(faceId, inFace)
     IN IF ExceedsMaxDepth(name)
        THEN /\ last' = Respond(l, 414, 0)
             /\ UNCHANGED <<events, m_registeredFaces,
                            m_updateBatches, fibPending>>
        ELSE beginAddRoute(name, Route(f, origin, <<>>, <<>>),
                           ExpiresOfPeriod(period),
                           Respond(l, 200, f))
  /\ UNCHANGED <<now, m_rib, m_activeFaceFetchEvent, m_isLocalhopEnabled,
                 started, topPending, fatal, nFetch, eagerDue, auditOwed>>

\* RibManager::unregisterEntry
unregisterEntry(name, faceId, origin, inFace) ==
  /\ started /\ ~fatal /\ topPending = {} /\ last.seq < MaxOps
  /\ LET l == [Req("unregisterEntry") EXCEPT !.name = name, !.faceId = faceId,
                 !.origin = origin, !.inFace = inFace]
         f == setFaceForSelfRegistration(faceId, inFace)
     IN beginRemoveRoute(name, Route(f, origin, <<>>, <<>>),
                         Respond(l, 200, f))
  /\ UNCHANGED <<now, events, m_rib, m_registeredFaces,
                 m_activeFaceFetchEvent, m_isLocalhopEnabled, started,
                 topPending, fatal, nFetch, eagerDue, auditOwed>>

\* a direct call of beginAddRoute without a period, for a route that may
\* carry an absolute expiration
addRouteCall(name, faceId, origin, routeExpires) ==
  /\ started /\ ~fatal /\ topPending = {} /\ last.seq < MaxOps
  /\ beginAddRoute(name, Route(faceId, origin, routeExpires, <<>>), <<>>,
                   [Req("beginAddRoute") EXCEPT !.name = name,
                      !.faceId = faceId, !.origin = origin,
                      !.period = routeExpires])
  /\ UNCHANGED <<now, m_rib, m_activeFaceFetchEvent, m_isLocalhopEnabled,
                 started, topPending, fatal, nFetch, eagerDue, auditOwed>>

\* a variant of the listed route that reports the expiration, not what is
\* left of it
ListedRoute_Absolute(route, t) ==
  [faceId |-> route.faceId, origin |-> route.origin,
   period |-> IF route.expires # <<>>
              THEN <<DurationCast(route.expires[1])>> ELSE <<>>]

\* the listed form of a route at time t: the expiration period is recomputed
ListedRoute(route, t) ==
  [faceId |-> route.faceId, origin |-> route.origin,
   period |-> IF route.expires # <<>>
              THEN <<DurationCast(route.expires[1] - t)>> ELSE <<>>]

\* the dataset of RibManager::listEntries at time t: one item per entry
ListEntries(rib, t) ==
  LET names == SelectSeq(NameOrder, LAMBDA n : rib[n] # <<>>)
  IN [i \in 1..Len(names) |->
        [name |-> names[i],
         routes |-> [k \in 1..Len(rib[names[i]]) |->
                       ListedRoute(rib[names[i]][k], t)]]]

\* RibManager::listEntries
listEntries ==
  /\ started /\ ~fatal /\ topPending = {} /\ last.seq < MaxOps
  /\ last' = [Req("listEntries") EXCEPT !.listing = ListEntries(m_rib, now),
                                        !.time = now]
  /\ UNCHANGED <<now, events, m_rib, m_updateBatches, fibPending,
                 m_registeredFaces, m_activeFaceFetchEvent,
                 m_isLocalhopEnabled, started, topPending, fatal, nFetch,
                 eagerDue, auditOwed>>

\* RibManager::registerWithNfd: the top prefixes whose command is issued
TopPrefixes(isLocalhopEnabled) ==
  {LOCALHOST_TOP_PREFIX} \cup
  (IF isLocalhopEnabled THEN {LOCALHOP_TOP_PREFIX} ELSE {})

\* RibManager::registerWithNfd
registerWithNfd ==
  /\ ~started /\ ~fatal
  /\ started' = TRUE
  /\ topPending' = TopPrefixes(m_isLocalhopEnabled)
  /\ events' = scheduleActiveFaceFetch(events, m_activeFaceFetchEvent,
                  nextEventId, now, ACTIVE_FACE_FETCH_INTERVAL)
  /\ m_activeFaceFetchEvent' = <<nextEventId>>
  /\ last' = Ran("registerWithNfd")
  /\ UNCHANGED <<now, m_rib, m_updateBatches, fibPending, m_registeredFaces,
                 m_isLocalhopEnabled, fatal, nFetch, eagerDue, auditOwed>>

\* RibManager::registerTopPrefix, the command's success callback
topPrefixSuccess(topPrefix, faceId) ==
  /\ ~fatal /\ topPrefix \in topPending
  /\ topPending' = topPending \ {topPrefix}
  /\ LET res == RibInsert(m_rib, events, topPrefix,
                          Route(faceId, 0, <<>>, <<>>))
     IN /\ m_rib' = res.rib
        /\ events' = res.events
  /\ m_registeredFaces' = m_registeredFaces \cup {faceId}
  /\ last' = [Ran("topPrefixSuccess") EXCEPT !.name = topPrefix,
                                              !.faceId = faceId]
  /\ UNCHANGED <<now, m_updateBatches, fibPending,
                 m_activeFaceFetchEvent, m_isLocalhopEnabled, started, fatal,
                 nFetch, eagerDue, auditOwed>>

\* a variant of the failure callback that lets the failure pass
topPrefixFailure_Ignored(topPrefix) ==
  /\ ~fatal /\ topPrefix \in topPending
  /\ topPending' = topPending \ {topPrefix}
  /\ last' = [Ran("topPrefixFailure") EXCEPT !.name = topPrefix]
  /\ UNCHANGED <<now, events, m_rib, m_updateBatches, fibPending,
                 m_registeredFaces, m_activeFaceFetchEvent,
                 m_isLocalhopEnabled, started, nFetch, eagerDue, auditOwed,
                 fatal>>

\* RibManager::registerTopPrefix, the command's failure callback: it throws
topPrefixFailure(topPrefix) ==
  /\ ~fatal /\ topPrefix \in topPending
  /\ topPending' = topPending \ {topPrefix}
  /\ fatal' = TRUE
  /\ last' = [Ran("topPrefixFailure") EXCEPT !.name = topPrefix]
  /\ UNCHANGED <<now, events, m_rib, m_updateBatches, fibPending,
                 m_registeredFaces, m_activeFaceFetchEvent,
                 m_isLocalhopEnabled, started, nFetch, eagerDue, auditOwed>>

\* a variant of onNotification that drops the notification
onNotification_Dropped(kind, faceId) ==
  /\ started /\ ~fatal /\ last.seq < MaxOps
  /\ last' = [Req("onNotification") EXCEPT !.faceId = faceId,
                                            !.kind = kind]
  /\ UNCHANGED <<now, events, m_rib, m_updateBatches, fibPending,
                 m_registeredFaces, m_activeFaceFetchEvent,
                 m_isLocalhopEnabled, started, topPending, fatal, nFetch,
                 eagerDue, auditOwed>>

\* RibManager::onNotification
onNotification(kind, faceId) ==
  /\ started /\ ~fatal /\ last.seq < MaxOps
  /\ IF kind = "DESTROYED"
     THEN /\ events' = Schedule(events, Event(nextEventId, now + 0,
                                  "destroyed", NoName, faceId, 0, <<>>))
     ELSE UNCHANGED <<events>>
  /\ last' = [Req("onNotification") EXCEPT !.faceId = faceId,
                                            !.kind = kind]
  /\ UNCHANGED <<now, m_rib, m_updateBatches, fibPending, m_registeredFaces,
                 m_activeFaceFetchEvent, m_isLocalhopEnabled, started,
                 topPending, fatal, nFetch, eagerDue, auditOwed>>

\* Rib::onRouteExpiration, run by the event beginAddRoute scheduled: an
\* UNREGISTER of the captured route, without callbacks
fireExpiration ==
  /\ ~fatal /\ Due(events, now) # {}
  /\ LET e == NextEvent(events)
         sent == BeginApplyUpdate(m_updateBatches, fibPending,
                    RibUpdate("UNREGISTER", e.name,
                              Route(e.faceId, e.origin, e.expires, <<>>), FALSE))
     IN /\ e.kind = "expire"
        /\ events' = events \ {e}
        /\ m_updateBatches' = sent.queue
        /\ fibPending' = sent.pending
        /\ last' = Ran("onRouteExpiration")
  /\ UNCHANGED <<now, m_rib, m_registeredFaces,
                 m_activeFaceFetchEvent, m_isLocalhopEnabled, started,
                 topPending, fatal, nFetch, eagerDue, auditOwed>>

\* RibManager::fetchActiveFaces, run by the event scheduleActiveFaceFetch
\* scheduled
fetchActiveFaces ==
  /\ ~fatal /\ Due(events, now) # {}
  /\ LET e == NextEvent(events)
     IN /\ e.kind = "fetch"
        /\ events' = events \ {e}
        /\ last' = Ran("fetchActiveFaces")
  /\ nFetch' = nFetch + 1
  /\ eagerDue' = <<>>
  /\ UNCHANGED <<now, m_rib, m_updateBatches, fibPending,
                 m_registeredFaces, m_activeFaceFetchEvent,
                 m_isLocalhopEnabled, started, topPending, fatal, auditOwed>>

\* a variant of onFaceDestroyedEvent that keeps the face registered
onFaceDestroyedEvent_KeepRegistered(st, faceId) ==
  LET sent == BeginRemoveFace(st.queue, st.pending, st.rib, faceId)
  IN [rib |-> st.rib, queue |-> sent.queue, pending |-> sent.pending,
      registered |-> st.registered]

\* RibManager::onFaceDestroyedEvent on the state st of the RIB table and the
\* registered-face set
onFaceDestroyedEvent(st, faceId) ==
  LET sent == BeginRemoveFace(st.queue, st.pending, st.rib, faceId)
  IN [rib |-> st.rib, queue |-> sent.queue, pending |-> sent.pending,
      registered |-> st.registered \ {faceId}]

\* the part of the state onFaceDestroyedEvent works on
TableState ==
  [rib |-> m_rib, queue |-> m_updateBatches, pending |-> fibPending,
   registered |-> m_registeredFaces]

\* RibManager::onFaceDestroyedEvent, run by the event onNotification or
\* removeInvalidFaces scheduled
fireFaceDestroyed ==
  /\ ~fatal /\ Due(events, now) # {}
  /\ LET e == NextEvent(events)
         st == onFaceDestroyedEvent(TableState, e.faceId)
     IN /\ e.kind = "destroyed"
        /\ events' = events \ {e}
        /\ m_updateBatches' = st.queue
        /\ fibPending' = st.pending
        /\ m_registeredFaces' = st.registered
        /\ auditOwed' = auditOwed \ {e.faceId}
        /\ last' = [Ran("onFaceDestroyedEvent") EXCEPT !.faceId = e.faceId,
                      !.hit = (e.faceId \in auditOwed)]
  /\ UNCHANGED <<now, m_rib, m_activeFaceFetchEvent,
                 m_isLocalhopEnabled, started, topPending, fatal, nFetch,
                 eagerDue>>

\* variants of the audit's selection: the registered faces that are active,
\* and every registered face
InvalidFaces_Active(registered, activeFaceIds) ==
  {faceId \in registered : faceId \in activeFaceIds}

InvalidFaces_All(registered, activeFaceIds) == registered

\* RibManager::removeInvalidFaces: the registered faces that are not active
InvalidFaces(registered, activeFaceIds) ==
  {faceId \in registered : faceId \notin activeFaceIds}

\* the events removeInvalidFaces schedules for them, in the set's order
DestroyedEvents(invalid, firstId, t) ==
  {Event(firstId + Cardinality({g \in invalid : g < f}), t + 0, "destroyed",
         NoName, f, 0, <<>>) : f \in invalid}

\* RibManager::removeInvalidFaces, the success callback of the fetch
removeInvalidFaces(activeFaceIds) ==
  /\ ~fatal /\ nFetch > 0
  /\ nFetch' = nFetch - 1
  /\ LET invalid == InvalidFaces(m_registeredFaces, activeFaceIds)
         auditId == nextEventId + Cardinality(invalid)
     IN /\ events' = scheduleActiveFaceFetch(
                        events \cup DestroyedEvents(invalid, nextEventId, now),
                        m_activeFaceFetchEvent, auditId, now,
                        ACTIVE_FACE_FETCH_INTERVAL)
        /\ m_activeFaceFetchEvent' = <<auditId>>
        /\ auditOwed' = auditOwed \cup invalid
        /\ last' = [Ran("removeInvalidFaces") EXCEPT !.active = activeFaceIds]
  /\ UNCHANGED <<now, m_rib, m_updateBatches, fibPending, m_registeredFaces,
                 m_isLocalhopEnabled, started, topPending, fatal, eagerDue>>

\* a variant of onFetchActiveFacesFailure that schedules nothing
onFetchActiveFacesFailure_NoReschedule ==
  /\ ~fatal /\ nFetch > 0
  /\ nFetch' = nFetch - 1
  /\ last' = Ran("onFetchActiveFacesFailure")
  /\ UNCHANGED <<now, events, m_rib, m_updateBatches, fibPending,
                 m_registeredFaces, m_activeFaceFetchEvent,
                 m_isLocalhopEnabled, started, topPending, fatal, eagerDue,
                 auditOwed>>

\* RibManager::onFetchActiveFacesFailure, the failure callback of the fetch
onFetchActiveFacesFailure ==
  /\ ~fatal /\ nFetch > 0
  /\ nFetch' = nFetch - 1
  /\ events' = scheduleActiveFaceFetch(events, m_activeFaceFetchEvent,
                  nextEventId, now, ACTIVE_FACE_FETCH_INTERVAL)
  /\ m_activeFaceFetchEvent' = <<nextEventId>>
  /\ last' = Ran("onFetchActiveFacesFailure")
  /\ UNCHANGED <<now, m_rib, m_updateBatches, fibPending, m_registeredFaces,
                 m_isLocalhopEnabled, started, topPending, fatal, eagerDue,
                 auditOwed>>

\* Rib::onFibUpdateSuccess: the update is applied to the table, the success
\* callback of beginRibUpdate reports OK, the next update is sent
ApplyUpdate(rib, evs, u) ==
  IF u.action = "REGISTER"
  THEN RibInsert(rib, evs, u.name, u.route)
  ELSE RibErase(rib, evs, u.name, u.route)

onFibUpdateSuccess ==
  /\ ~fatal /\ fibPending # <<>>
  /\ LET u == fibPending[1]
         res == ApplyUpdate(m_rib, events, u)
         sent == SendBatchFromQueue(m_updateBatches, <<>>)
     IN /\ m_rib' = res.rib
        /\ events' = res.events
        /\ m_updateBatches' = sent.queue
        /\ fibPending' = sent.pending
        /\ last' = [Ran("onFibUpdateSuccess") EXCEPT
                      !.result = IF u.cb THEN "OK" ELSE "none",
                      !.kind = u.action, !.hit = (res.rib # m_rib)]
  /\ UNCHANGED <<now, m_registeredFaces, m_activeFaceFetchEvent,
                 m_isLocalhopEnabled, started, topPending, fatal, nFetch,
                 eagerDue, auditOwed>>

\* Rib::onFibUpdateFailure for an update submitted by beginRibUpdate: its
\* failure callback schedules the fetch and reports ERROR, the next update is
\* sent
onFibUpdateFailure ==
  /\ ~fatal /\ fibPending # <<>>
  /\ LET u == fibPending[1]
         sent == SendBatchFromQueue(m_updateBatches, <<>>)
     IN /\ u.cb
        /\ events' = scheduleActiveFaceFetch(events, m_activeFaceFetchEvent,
                        nextEventId, now, EAGER_FETCH_DELAY)
        /\ m_activeFaceFetchEvent' = <<nextEventId>>
        /\ m_updateBatches' = sent.queue
        /\ fibPending' = sent.pending
        /\ last' = [Ran("onFibUpdateFailure") EXCEPT !.result = "ERROR",
                                                     !.kind = u.action]
  /\ eagerDue' = <<now + Ticks(EAGER_FETCH_DELAY)>>
  /\ UNCHANGED <<now, m_rib, m_registeredFaces, m_isLocalhopEnabled, started,
                 topPending, fatal, nFetch, auditOwed>>

\* the clock: time passes only while no scheduled event is due, and the
\* model follows it from one deadline of the scheduler to the next
tick ==
  /\ ~fatal /\ events # {} /\ Due(events, now) = {}
  /\ NextEvent(events).at <= Ticks(MaxTime)
  /\ now' = NextEvent(events).at
  /\ last' = Ran("tick")
  /\ UNCHANGED <<events, m_rib, m_updateBatches, fibPending,
                 m_registeredFaces, m_activeFaceFetchEvent,
                 m_isLocalhopEnabled, started, topPending, fatal, nFetch,
                 eagerDue, auditOwed>>

-----------------------------------------------------------------------------

Next ==
  \/ registerWithNfd
  \/ \E p \in RibNames, f \in TopPrefixFaces : topPrefixSuccess(p, f)
  \/ \E p \in RibNames : topPrefixFailure(p)
  \/ \E n \in ReqNames, f \in ReqFaceIds, o \in Origins, p \in Periods,
        i \in IncomingFaces : registerEntry(n, f, o, p, i)
  \/ \E n \in {ShortName}, f \in ReqFaceIds, o \in Origins, i \in IncomingFaces :
        unregisterEntry(n, f, o, i)
  \/ \E f \in FaceIds, o \in Origins, x \in RouteExpirations :
        addRouteCall(ShortName, f, o, x)
  \/ listEntries
  \/ \E k \in {"CREATED", "DESTROYED"}, f \in FaceIds : onNotification(k, f)
  \/ fireExpiration
  \/ fetchActiveFaces
  \/ fireFaceDestroyed
  \/ \E a \in SUBSET FaceIds : removeInvalidFaces(a)
  \/ onFetchActiveFacesFailure
  \/ onFibUpdateSuccess
  \/ onFibUpdateFailure
  \/ tick

Spec == Init /\ [][Next]_vars

-----------------------------------------------------------------------------
(* The listing over a clock that advances tick by tick.  The manager is    *)
(* past its bring-up and a register request for ShortName with a period   *)
(* has been applied at time 0; only the clock, the listing, the           *)
(* expiration of the route and the table's updates run.                   *)

\* the scheduler runs an event that is due: its io_service does not starve
\* a handler
NotifyPeriods == {<<>>, <<1>>}

\* the handlers around a notification: bring-up, registrations of routes on
\* the faces, notifications, the scheduler's events, the audit and the
\* table's updates
NotifyNext ==
  \/ registerWithNfd
  \/ \E p \in RibNames, f \in TopPrefixFaces : topPrefixSuccess(p, f)
  \/ \E p \in RibNames : topPrefixFailure(p)
  \/ \E p \in NotifyPeriods, i \in IncomingFaces :
        registerEntry(ShortName, 0, 0, p, i)
  \/ \E k \in {"CREATED", "DESTROYED"}, f \in FaceIds : onNotification(k, f)
  \/ fireExpiration
  \/ fetchActiveFaces
  \/ fireFaceDestroyed
  \/ \E a \in SUBSET FaceIds : removeInvalidFaces(a)
  \/ onFetchActiveFacesFailure
  \/ onFibUpdateSuccess
  \/ onFibUpdateFailure
  \/ tick

FairSpec ==
  /\ Init /\ [][NotifyNext]_vars
  /\ WF_vars(fireFaceDestroyed)
  /\ WF_vars(fireExpiration)
  /\ WF_vars(fetchActiveFaces)

ListPeriods == {1, 2}

ListInit ==
  \E p \in ListPeriods :
    /\ now = 0
    /\ events = {Event(1, Ticks(ACTIVE_FACE_FETCH_INTERVAL), "fetch",
                       NoName, 0, 0, <<>>),
                 Event(2, Ticks(p), "expire", ShortName, 2, 0, <<Ticks(p)>>)}
    /\ m_rib = [n \in RibNames |->
                 IF n = LOCALHOST_TOP_PREFIX
                 THEN <<Route(1, 0, <<>>, <<>>)>>
                 ELSE IF n = ShortName
                 THEN <<Route(2, 0, <<Ticks(p)>>, <<2>>), Route(1, 0, <<>>, <<>>)>>
                 ELSE <<>>]
    /\ m_updateBatches = <<>>
    /\ fibPending = <<>>
    /\ m_registeredFaces = {1, 2}
    /\ m_activeFaceFetchEvent = <<1>>
    /\ m_isLocalhopEnabled = FALSE
    /\ started = TRUE
    /\ topPending = {}
    /\ fatal = FALSE
    /\ nFetch = 0
    /\ eagerDue = <<>>
    /\ auditOwed = {}
    /\ last = NoLast

\* the clock advances by one tick while no scheduled event is due
elapse ==
  /\ ~fatal /\ Due(events, now) = {} /\ now < MaxListTime
  /\ now' = now + 1
  /\ UNCHANGED <<events, m_rib, m_updateBatches, fibPending,
                 m_registeredFaces, m_activeFaceFetchEvent,
                 m_isLocalhopEnabled, started, topPending, fatal, nFetch,
                 eagerDue, auditOwed, last>>

ListNext ==
  \/ elapse
  \/ listEntries
  \/ fireExpiration
  \/ onFibUpdateSuccess

ListSpec == ListInit /\ [][ListNext]_vars

-----------------------------------------------------------------------------
(* Properties *)

\* the pending expiration events of the route (name, faceId, origin)
ExpirationEvents(evs, name, faceId, origin) ==
  {e \in evs : e.kind = "expire" /\ e.name = name /\ e.faceId = faceId
               /\ e.origin = origin}

\* the updates the RIB table holds, the one at the FIB updater first
PendingUpdates(st) == st.pending \o st.queue

Updates(q) == {q[i] : i \in 1..Len(q)}

\* the routes of the table owned by faceId, as <<name, route>>
RoutesOfFace(rib, faceId) ==
  UNION {{<<n, rib[n][i]>> : i \in {j \in 1..Len(rib[n]) : rib[n][j].faceId = faceId}}
         : n \in DOMAIN rib}

\* C1: at most one expiration timer is pending for a route: every two
\* pending expiration events of the same (name, faceId, origin) are one event
C1_OneExpirationTimerPerRoute ==
  \A e \in events, f \in events :
    (e.kind = "expire" /\ f \in ExpirationEvents(events, e.name, e.faceId, e.origin))
      => e = f

\* C2: after a RIB-update failure an audit is pending that fires within the
\* eager delay, until a fetch of the active faces starts; and the completion
\* of a fetch leaves the audit scheduled at the periodic interval
C2_FailureIsFollowedByFetch ==
  /\ eagerDue # <<>> =>
       \E e \in events : e.kind = "fetch" /\ e.at <= eagerDue[1]
  /\ last.op \in {"removeInvalidFaces", "onFetchActiveFacesFailure"} =>
       \E e \in events : e.kind = "fetch" /\ e.at = now + Ticks(ACTIVE_FACE_FETCH_INTERVAL)

\* C3: a successful fetch schedules, for every registered face that is not
\* active, the face-destroyed handler at once and ahead of every audit; no
\* audit fires while such a handler is owed; and the handler takes the face
\* out of the registered-face set and submits the removal of every route of
\* the face, which the table applies by erasing the route
C3_InvalidFaceRemovedWithinCycle ==
  [][ /\ last'.op = "removeInvalidFaces" =>
           \A f \in m_registeredFaces \ last'.active :
             \E e \in events' :
               /\ e.kind = "destroyed" /\ e.faceId = f /\ e.at = now
               /\ \A g \in events' : g.kind = "fetch" => Earlier(e, g)
      /\ last'.op = "fetchActiveFaces" => auditOwed = {}
      /\ last'.op = "onFaceDestroyedEvent" =>
           LET f == NextEvent(events).faceId
           IN /\ f \notin m_registeredFaces'
              /\ \A nr \in RoutesOfFace(m_rib, f) :
                   \E u \in Updates(fibPending' \o m_updateBatches') :
                     /\ u.action = "REMOVE_FACE" /\ u.name = nr[1]
                     /\ u.route = nr[2]
      /\ (last'.op = "onFibUpdateSuccess" /\ fibPending[1].action = "REMOVE_FACE") =>
           FindRoute(m_rib'[fibPending[1].name], fibPending[1].route) = 0
    ]_vars

\* C3 witness: an audit found a registered face inactive, its handler has run
\* and the removal of its routes is with the table
C3_Witness ==
  /\ last.op = "onFaceDestroyedEvent" /\ last.hit
  /\ last.faceId \notin m_registeredFaces
  /\ RoutesOfFace(m_rib, last.faceId) # {}
  /\ \E u \in Updates(fibPending \o m_updateBatches) :
       u.action = "REMOVE_FACE" /\ u.route.faceId = last.faceId
  /\ \E e \in events : e.kind = "fetch" /\ e.at = now + Ticks(ACTIVE_FACE_FETCH_INTERVAL)

\* C4: a successful fetch leaves a face that is registered and active alone:
\* no handler is scheduled for it, the table and its updates are unchanged,
\* the face stays registered
C4_ActiveFaceUntouched ==
  [][ last'.op = "removeInvalidFaces" =>
        \A f \in m_registeredFaces \cap last'.active :
          /\ \A e \in events' \ events : ~(e.kind = "destroyed" /\ e.faceId = f)
          /\ m_rib' = m_rib
          /\ m_updateBatches' = m_updateBatches /\ fibPending' = fibPending
          /\ f \in m_registeredFaces'
    ]_vars

\* C4 witness: an audit has just passed over an active face that owns a
\* route while it found another registered face inactive
C4_Witness ==
  /\ last.op = "removeInvalidFaces"
  /\ \E f \in m_registeredFaces \cap last.active :
       /\ RoutesOfFace(m_rib, f) # {}
       /\ \A e \in events : ~(e.kind = "destroyed" /\ e.faceId = f)
  /\ \E g \in m_registeredFaces \ last.active :
       \E e \in events : e.kind = "destroyed" /\ e.faceId = g

\* the table once every update it holds has been applied
RECURSIVE ApplyAll(_, _)
ApplyAll(rib, us) ==
  IF us = <<>> THEN rib
  ELSE ApplyAll(ApplyUpdate(rib, {}, Head(us)).rib, Tail(us))

Settled(st) == ApplyAll(st.rib, PendingUpdates(st))

\* C5: in every reachable state and for every face, running the
\* face-destroyed handler twice gives the table (once its updates are
\* applied) and the registered-face set that running it once gives, and the
\* face is not registered afterwards
C5_FaceDestroyedIdempotent ==
  \A f \in FaceIds :
    LET once == onFaceDestroyedEvent(TableState, f)
        twice == onFaceDestroyedEvent(once, f)
    IN /\ Settled(twice) = Settled(once)
       /\ twice.registered = once.registered
       /\ f \notin once.registered
       /\ f \notin twice.registered
       /\ twice.rib = once.rib

\* C5 witness: the handler has run for a face that owned a route (the
\* removal is with the table, the face is no longer registered) and it is
\* scheduled for the same face once more
C5_Witness ==
  /\ last.op = "onFaceDestroyedEvent"
  /\ \E e \in events :
       /\ e.kind = "destroyed"
       /\ e.faceId \notin m_registeredFaces
       /\ \E u \in Updates(fibPending \o m_updateBatches) :
            u.action = "REMOVE_FACE" /\ u.route.faceId = e.faceId
       /\ RoutesOfFace(m_rib, e.faceId) # {}

\* everything but the history record
state == <<now, events, m_rib, m_updateBatches, fibPending, m_registeredFaces,
           m_activeFaceFetchEvent, m_isLocalhopEnabled, started, topPending,
           fatal, nFetch, eagerDue, auditOwed>>

\* the update a step has submitted to the RIB table: the last one it holds
Submitted(q, pending) == IF q # <<>> THEN q[Len(q)] ELSE pending[1]

\* C6: a registration that reaches beginAddRoute with a period of zero or
\* less, and a direct beginAddRoute call without a period for a route whose
\* absolute expiration is not in the future, report EXPIRED, and the RIB
\* table is handed no update
C6_NonPositivePeriodExpired ==
  [][ (\/ /\ last'.op = "registerEntry" /\ last'.code = 200
          /\ last'.period # <<>> /\ last'.period[1] <= 0
       \/ /\ last'.op = "beginAddRoute"
          /\ last'.period # <<>> /\ last'.period[1] <= now)
      => /\ last'.result = "EXPIRED"
         /\ ~last'.submitted
         /\ UNCHANGED <<m_rib, m_updateBatches, fibPending>>
    ]_vars

\* C6 witness: a register request with a negative period has ended EXPIRED
C6_Witness ==
  /\ last.op = "registerEntry" /\ last.period = <<-1>>
  /\ last.result = "EXPIRED" /\ ~last.submitted

\* C7: a register request for a name deeper than FIB_MAX_DEPTH is answered
\* 414 and changes nothing: no update, no event, no registered face
C7_TooDeepRejected ==
  [][ (last'.op = "registerEntry" /\ Len(last'.name) > FIB_MAX_DEPTH)
      => /\ last'.code = 414
         /\ ~last'.submitted
         /\ UNCHANGED state
    ]_vars

\* C7 witness: a register request for the deep name, with a positive period
\* and a face not yet registered, has been answered 414
C7_Witness ==
  /\ last.op = "registerEntry" /\ last.name = LongName /\ last.code = 414
  /\ last.period = <<1>> /\ last.faceId = 0
  /\ last.inFace \notin m_registeredFaces

\* C8: the expiration of a route submits its removal to the table, and an
\* expiration never removes a route that is in the table without expiration
C8_OnlyTimedRoutesExpire ==
  [][ /\ last'.op = "onRouteExpiration" =>
           LET e == NextEvent(events)
               u == Submitted(m_updateBatches', fibPending')
           IN /\ u.action = "UNREGISTER" /\ u.name = e.name
              /\ u.route.faceId = e.faceId /\ u.route.origin = e.origin
      /\ (/\ last'.op = "onFibUpdateSuccess"
          /\ fibPending[1].action = "UNREGISTER" /\ ~fibPending[1].cb) =>
           LET u == fibPending[1]
               i == FindRoute(m_rib[u.name], u.route)
           IN i # 0 => m_rib[u.name][i].expires # <<>>
    ]_vars

\* the items of a listing for a name, and the routes of an item for a face
\* and origin
ItemsOf(listing, name) == {i \in 1..Len(listing) : listing[i].name = name}

ListedFor(item, faceId, origin) ==
  {k \in 1..Len(item.routes) :
     item.routes[k].faceId = faceId /\ item.routes[k].origin = origin}

\* C9: a register request submits a registration, and an unregister request
\* a removal, of the route of its name, face and origin; once a register
\* without expiration submitted by the manager is applied, the listing has one item for the name, in it one route of the
\* face and origin, without expiration period, and no other route if the
\* name had none; once an unregister is applied, the listing has no route of
\* the face and origin under the name, and no item for the name if it had no
\* other route
C9_RegisterUnregisterRoundTrip ==
  [][ /\ (last'.op \in {"registerEntry", "unregisterEntry"} /\ last'.submitted) =>
        LET u == Submitted(m_updateBatches', fibPending')
        IN /\ u.action = (IF last'.op = "registerEntry" THEN "REGISTER"
                                                        ELSE "UNREGISTER")
           /\ u.name = last'.name /\ u.route.faceId = last'.respFace
           /\ u.route.origin = last'.origin /\ u.cb
           /\ ExpiresOfPeriod(last'.period) = <<>> => u.route.expires = <<>>
      /\ (last'.op = "onFibUpdateSuccess" /\ fibPending[1].cb) =>
        LET u == fibPending[1]
            before == ListEntries(m_rib, now)
            after == ListEntries(m_rib', now')
            others == \E i \in ItemsOf(before, u.name) :
                        \E k \in 1..Len(before[i].routes) :
                          k \notin ListedFor(before[i], u.route.faceId, u.route.origin)
        IN /\ (u.action = "REGISTER" /\ u.route.expires = <<>>) =>
                /\ Cardinality(ItemsOf(after, u.name)) = 1
                /\ \A i \in ItemsOf(after, u.name) :
                     /\ Cardinality(ListedFor(after[i], u.route.faceId, u.route.origin)) = 1
                     /\ \A k \in ListedFor(after[i], u.route.faceId, u.route.origin) :
                          after[i].routes[k].period = <<>>
                     /\ ~others => Len(after[i].routes) = 1
           /\ u.action = "UNREGISTER" =>
                /\ \A i \in ItemsOf(after, u.name) :
                     ListedFor(after[i], u.route.faceId, u.route.origin) = {}
                /\ ~others => ItemsOf(after, u.name) = {}
    ]_vars

\* C9 witness: an unregister has been applied and has removed the only
\* route under the name, which a register for a face had put there
C9_Witness ==
  /\ last.op = "onFibUpdateSuccess" /\ last.kind = "UNREGISTER"
  /\ last.result = "OK" /\ last.hit
  /\ ItemsOf(ListEntries(m_rib, now), ShortName) = {}
  /\ \A e \in events : e.kind = "fetch"

\* C10: the face id in the response of a register or unregister request and
\* in the update it submits is the IncomingFaceIdTag of the request if the
\* request carries face id 0, and the face id of the request otherwise
C10_SelfRegistrationFace ==
  [][ (last'.op \in {"registerEntry", "unregisterEntry"} /\ last'.code = 200) =>
        LET f == IF last'.faceId = 0 THEN last'.inFace ELSE last'.faceId
        IN /\ last'.respFace = f
           /\ last'.submitted =>
                Submitted(m_updateBatches', fibPending').route.faceId = f
    ]_vars

\* C10 witness: a register request with face id 0 has been answered with,
\* and has submitted a route on, the face it arrived on
C10_Witness ==
  /\ last.op = "registerEntry" /\ last.faceId = 0 /\ last.code = 200
  /\ last.respFace = last.inFace /\ last.submitted
  /\ Submitted(m_updateBatches, fibPending).route.faceId = last.inFace

\* C11: a register request that passes the depth check is answered once,
\* with 200, and the answer comes before the update is submitted (or the
\* call ends EXPIRED); the handlers that run when the update succeeds or
\* fails answer nothing
C11_AcknowledgedBeforeCommitted ==
  [][ /\ (last'.op = "registerEntry" /\ Len(last'.name) <= FIB_MAX_DEPTH) =>
           /\ last'.code = 200
           /\ Cardinality({i \in 1..Len(last'.effects) :
                             last'.effects[i] = "respond"}) = 1
           /\ last'.effects[1] = "respond"
           /\ last'.submitted <=>
                (last'.effects[Len(last'.effects)] = "submit"
                 /\ fibPending' \o m_updateBatches' # fibPending \o m_updateBatches)
           /\ last'.submitted \/ last'.result = "EXPIRED"
      /\ last'.op \in {"onFibUpdateSuccess", "onFibUpdateFailure"} =>
           /\ last'.code = 0
           /\ \A i \in 1..Len(last'.effects) : last'.effects[i] # "respond"
    ]_vars

\* C11 witness: the update of a register request answered 200 has failed,
\* and the failure is reported to the no-op completion callback only
C11_Witness ==
  /\ last.op = "onFibUpdateFailure" /\ last.kind = "REGISTER"
  /\ last.result = "ERROR" /\ last.code = 0 /\ last.effects = <<>>

\* C12: the failure of a top prefix's command is fatal: nothing runs after
\* it, and it inserts no route and registers no face; nothing else is fatal;
\* the success of the command inserts the route of the returned face under
\* the top prefix and registers the face, and nothing else adds a route
\* under a top prefix
C12_TopPrefixFailureFatal ==
  [][ /\ last'.op = "topPrefixFailure" =>
           /\ fatal'
           /\ UNCHANGED <<m_rib, m_registeredFaces, m_updateBatches,
                          fibPending, events>>
      /\ fatal => UNCHANGED vars
      /\ (~fatal /\ fatal') => last'.op = "topPrefixFailure"
      /\ last'.op = "topPrefixSuccess" =>
           /\ \E i \in 1..Len(m_rib'[last'.name]) :
                m_rib'[last'.name][i].faceId = last'.faceId
           /\ last'.faceId \in m_registeredFaces'
      /\ \A p \in {LOCALHOST_TOP_PREFIX, LOCALHOP_TOP_PREFIX} :
           Len(m_rib'[p]) > Len(m_rib[p]) =>
             (last'.op = "topPrefixSuccess" /\ last'.name = p)
    ]_vars

\* C12 witness: the command for the top prefix has failed: the manager has
\* stopped, no route is under the prefix and no face is registered
C12_Witness ==
  /\ fatal /\ last.op = "topPrefixFailure"
  /\ last.name = LOCALHOST_TOP_PREFIX
  /\ m_rib[LOCALHOST_TOP_PREFIX] = <<>>
  /\ m_registeredFaces = {}

\* the timed routes of a listing, as <<item, route>> positions
TimedListed(listing) ==
  {ik \in UNION {{<<i, k>> : k \in 1..Len(listing[i].routes)} : i \in 1..Len(listing)} :
     listing[ik[1]].routes[ik[2]].period # <<>>}

\* the listing is the table, entry by entry and route by route, and the
\* listing changes nothing
ListingOfTable ==
  /\ UNCHANGED state
  /\ LET names == SelectSeq(NameOrder, LAMBDA n : m_rib[n] # <<>>)
     IN /\ Len(last'.listing) = Len(names)
        /\ \A i \in 1..Len(names) :
             /\ last'.listing[i].name = names[i]
             /\ Len(last'.listing[i].routes) = Len(m_rib[names[i]])
             /\ \A k \in 1..Len(m_rib[names[i]]) :
                  /\ last'.listing[i].routes[k].faceId = m_rib[names[i]][k].faceId
                  /\ (last'.listing[i].routes[k].period = <<>>)
                       <=> (m_rib[names[i]][k].expires = <<>>)

\* the route of the table a position of the listing stands for
RouteListedAt(ik) ==
  m_rib[SelectSeq(NameOrder, LAMBDA n : m_rib[n] # <<>>)[ik[1]]][ik[2]]

\* C13 as stated: a listing at time t emits, for a route that expires at E,
\* the period E - t, and none for a route without expiration; of two
\* listings with only time passing between them the later emits the
\* strictly smaller period for every such route; the listing changes nothing
C13_ListedPeriodExact ==
  [][ (last'.op = "listEntries" /\ last'.seq = last.seq + 1) =>
        /\ ListingOfTable
        /\ \A ik \in TimedListed(last'.listing) :
             Ticks(last'.listing[ik[1]].routes[ik[2]].period[1])
               = RouteListedAt(ik).expires[1] - now
        /\ (last.op = "listEntries" /\ last.time < now) =>
             \A ik \in TimedListed(last'.listing) :
               last'.listing[ik[1]].routes[ik[2]].period[1]
                 < last.listing[ik[1]].routes[ik[2]].period[1]
    ]_vars

\* C13, amended: the emitted period is E - t in whole units, rounded toward
\* zero; of two listings with only time passing between them the later
\* emits no larger a period, and a strictly smaller one if it is at least a
\* unit later and the route has not yet expired; a route without expiration
\* is emitted without period; the listing changes nothing
C13_ListedPeriodTruncated ==
  [][ (last'.op = "listEntries" /\ last'.seq = last.seq + 1) =>
        /\ ListingOfTable
        /\ \A ik \in TimedListed(last'.listing) :
             LET p == last'.listing[ik[1]].routes[ik[2]].period[1]
                 d == RouteListedAt(ik).expires[1] - now
             IN IF d >= 0
                THEN Ticks(p) <= d /\ d < Ticks(p + 1)
                ELSE Ticks(p) >= d /\ d > Ticks(p - 1)
        /\ (last.op = "listEntries" /\ last.time < now) =>
             \A ik \in TimedListed(last'.listing) :
               LET p1 == last.listing[ik[1]].routes[ik[2]].period[1]
                   p2 == last'.listing[ik[1]].routes[ik[2]].period[1]
               IN /\ p2 <= p1
                  /\ (now - last.time >= TicksPerUnit
                      /\ RouteListedAt(ik).expires[1] - now >= 0) => p2 < p1
    ]_vars

\* C13 witness: two listings of a route with expiration, a unit or more
\* apart, the later before the route expires
C13_Witness ==
  /\ last.op = "listEntries" /\ last.seq = 2 /\ last.time >= TicksPerUnit
  /\ \E ik \in TimedListed(last.listing) :
       /\ RouteListedAt(ik).expires[1] - last.time > 0
       /\ last.listing[ik[1]].routes[ik[2]].period = <<0>>

\* C14: the completion of a fetch, success or failure, leaves the audit
\* scheduled at the periodic interval from now, held by
\* m_activeFaceFetchEvent; a failure is not fatal and changes neither the
\* RIB table, its updates nor the registered-face set
C14_FetchCompletionReschedules ==
  [][ /\ last'.op \in {"removeInvalidFaces", "onFetchActiveFacesFailure"} =>
           \E e \in events' \ events :
             /\ e.kind = "fetch"
             /\ e.at = now + Ticks(ACTIVE_FACE_FETCH_INTERVAL)
             /\ m_activeFaceFetchEvent' = <<e.id>>
      /\ last'.op = "onFetchActiveFacesFailure" =>
           /\ ~fatal'
           /\ UNCHANGED <<m_rib, m_updateBatches, fibPending,
                          m_registeredFaces>>
           /\ \A e \in events' \ events : e.kind = "fetch"
    ]_vars

\* C14 witness: a fetch has failed while a face that is registered owns a
\* route; the audit is scheduled at the periodic interval
C14_Witness ==
  /\ last.op = "onFetchActiveFacesFailure"
  /\ ~fatal
  /\ \E f \in m_registeredFaces : RoutesOfFace(m_rib, f) # {}
  /\ \E e \in events :
       e.kind = "fetch" /\ e.at = now + Ticks(ACTIVE_FACE_FETCH_INTERVAL)
  /\ now > 0

\* the face-destroyed handler is scheduled for face f
DestroyedPending(f) == \E e \in events : e.kind = "destroyed" /\ e.faceId = f

\* C15: a face-destroyed notification for f changes nothing but the
\* scheduler, where it puts the handler for f, due at once; a face-created
\* notification changes nothing; the handler, when it runs, takes f out of
\* the registered-face set and submits the removal of every route of f; and
\* while the manager runs, a handler scheduled for f does run
C15_DestroyedNotificationHandled ==
  /\ [][ /\ (last'.op = "onNotification" /\ last'.kind = "DESTROYED") =>
              /\ \E e \in events' \ events :
                   /\ e.kind = "destroyed" /\ e.faceId = last'.faceId
                   /\ e.at = now
                   /\ events' = events \cup {e}
              /\ UNCHANGED <<now, m_rib, m_updateBatches, fibPending,
                             m_registeredFaces, m_activeFaceFetchEvent>>
         /\ (last'.op = "onNotification" /\ last'.kind = "CREATED") =>
              UNCHANGED state
         /\ (last'.op = "onFaceDestroyedEvent" /\ ~last'.hit) =>
              /\ last'.faceId = NextEvent(events).faceId
              /\ last'.faceId \notin m_registeredFaces'
              /\ m_rib' = m_rib
              /\ RoutesOfFace(m_rib, last'.faceId) \subseteq
                   {<<u.name, u.route>> :
                      u \in {v \in Updates(fibPending' \o m_updateBatches') :
                               v.action = "REMOVE_FACE"
                               /\ v.route.faceId = last'.faceId}}
       ]_vars
  /\ \A f \in FaceIds :
       DestroyedPending(f) ~>
         (fatal \/ (last.op = "onFaceDestroyedEvent" /\ last.faceId = f))

\* C15 witness: the handler has run for a notified face that no audit had
\* found invalid: the face is not registered and the removal of its route is
\* with the table
C15_Witness ==
  /\ last.op = "onFaceDestroyedEvent" /\ ~last.hit
  /\ last.faceId \notin m_registeredFaces
  /\ auditOwed = {}
  /\ RoutesOfFace(m_rib, last.faceId) # {}
  /\ \E u \in Updates(fibPending \o m_updateBatches) :
       u.action = "REMOVE_FACE" /\ u.route.faceId = last.faceId

\* C16: when the table holds no update and no face-destroyed handler is
\* scheduled, every face that owns a route in the table is registered
C16_RegisteredCoversRib ==
  (/\ fibPending = <<>> /\ m_updateBatches = <<>>
   /\ \A e \in events : e.kind # "destroyed")
    => \A f \in FaceIds : RoutesOfFace(m_rib, f) # {} => f \in m_registeredFaces

\* the audit events pending
AuditEvents == {e \in events : e.kind = "fetch"}

\* C17: once registerWithNfd has run, an audit is scheduled or a fetch of
\* the active faces is outstanding
C17_AuditLoopAlive ==
  started => (AuditEvents # {} \/ nFetch > 0)

\* C17 witness: the audit a failed update scheduled has fired: its fetch is
\* outstanding and no audit is scheduled
C17_Witness ==
  /\ started /\ ~fatal
  /\ last.op = "fetchActiveFaces" /\ now = Ticks(EAGER_FETCH_DELAY)
  /\ AuditEvents = {} /\ nFetch = 1

\* C18: at most one audit is scheduled, and it is the one
\* m_activeFaceFetchEvent holds, so an audit that fires is the one
\* scheduled last
C18_OneAuditTimer ==
  /\ Cardinality(AuditEvents) <= 1
  /\ \A e \in AuditEvents : m_activeFaceFetchEvent = <<e.id>>

\* C18 witness: the audit scheduled by a failed update is the only one
\* pending: it has replaced the periodic one
C18_Witness ==
  /\ last.op = "onFibUpdateFailure"
  /\ \E e \in AuditEvents :
       /\ e.at = now + Ticks(EAGER_FETCH_DELAY)
       /\ AuditEvents = {e}
       /\ e.id > 1

\* C19: an expiration event that fires finds in the table the route of its
\* name, face and origin, with the expiration the event was scheduled for
C19_ExpirationFindsItsRoute ==
  [][ last'.op = "onRouteExpiration" =>
        LET e == NextEvent(events)
        IN \E i \in 1..Len(m_rib[e.name]) :
             /\ m_rib[e.name][i].faceId = e.faceId
             /\ m_rib[e.name][i].origin = e.origin
             /\ m_rib[e.name][i].expires = e.expires
    ]_vars

\* C20: a call of beginAddRoute that ends EXPIRED changes nothing: no event
\* is scheduled, no face registered; a call that submits its REGISTER update
\* has put the face of the route into the registered-face set, before it
\* submits; and the failure of an update leaves the registered-face set as
\* it is
C20_ExpiredUnchangedNoRollback ==
  [][ /\ last'.result = "EXPIRED" =>
           /\ last'.op \in {"registerEntry", "beginAddRoute"}
           /\ UNCHANGED state
      /\ (last'.op \in {"registerEntry", "beginAddRoute"} /\ last'.submitted) =>
           LET u == Submitted(m_updateBatches', fibPending')
               n == Len(last'.effects)
           IN /\ u.action = "REGISTER"
              /\ u.route.faceId \in m_registeredFaces'
              /\ n >= 2
              /\ last'.effects[n - 1] = "insert" /\ last'.effects[n] = "submit"
      /\ last'.op = "onFibUpdateFailure" =>
           m_registeredFaces' = m_registeredFaces
    ]_vars

\* C20 witness: the REGISTER update of a route on face 2 has failed; nothing
\* of the face is in the table or on its way there, and the face is
\* registered
C20_Witness ==
  /\ last.op = "onFibUpdateFailure" /\ last.kind = "REGISTER"
  /\ 2 \in m_registeredFaces
  /\ RoutesOfFace(m_rib, 2) = {}
  /\ fibPending = <<>> /\ m_updateBatches = <<>>

====
